---- MODULE Spec2Model ----
(***************************************************************************)
(* The exam-paper digitisation pipeline of core.py: main() walks the PDFs  *)
(* of the input directory, renders each to page images, sends each page to *)
(* the extraction service, stitches questions cut by a page boundary, and  *)
(* appends the file's records to the JSON store and its name to the        *)
(* processed-files log.                                                    *)
(***************************************************************************)
EXTENDS Integers, Sequences, FiniteSets, TLC

(***************************************************************************)
(* Bounds of the model.                                                    *)
(***************************************************************************)
MaxPages == 2        \* pages of the longest PDF of the input directory
MaxRecs == 2         \* records one extraction call returns at most
MaxRuns == 2         \* invocations of main() over the same directory
MaxStored == 3       \* records of the Store the query-serving application finds

(***************************************************************************)
(* Text is a sequence of characters; a character is a one-letter string.   *)
(* The multi-byte tokens of the source are named characters here.          *)
(***************************************************************************)
TailLen == 10        \* stem[-10:]

None == <<>>         \* Python's None for an optional record: <<>> or <<r>>

Min(a, b) == IF a < b THEN a ELSE b

\* s[-n:]
LastChars(s, n) == SubSeq(s, Len(s) - Min(n, Len(s)) + 1, Len(s))

\* sub in s
Contains(s, sub) ==
    \E k \in 1..(Len(s) - Len(sub) + 1) : SubSeq(s, k, k + Len(sub) - 1) = sub

\* s.endswith(suf)
EndsWith(s, suf) ==
    /\ Len(suf) <= Len(s)
    /\ SubSeq(s, Len(s) - Len(suf) + 1, Len(s)) = suf

\* ["A.", "B.", "C.", "D."]
ChoiceLetters == { <<"A", ".">>, <<"B", ".">>, <<"C", ".">>, <<"D", ".">> }

\* ("，", ",", "：", ":", "如图所示")
DanglingTokens ==
    { <<"fullwidth_comma">>, <<",">>, <<"fullwidth_colon">>, <<":">>,
      <<"ru", "tu", "suo", "shi">> }

\* question.get(key, default)
Get(q, key, default) == IF key \in DOMAIN q THEN q[key] ELSE default

\* is_question_incomplete(question)
is_question_incomplete(question) ==
    LET stem == Get(question, "stem_text", <<>>)
        options == Get(question, "options", "null")
    IN  \/ /\ \E letter \in ChoiceLetters : Contains(LastChars(stem, TailLen), letter)
           /\ options = "null"
        \/ \E tok \in DanglingTokens : EndsWith(stem, tok)

(***************************************************************************)
(* The input directory: two PDFs, in the order glob returns them.  A file  *)
(* name is text, so that the ledger's write and read back are computed.    *)
(***************************************************************************)
FileA == <<"a">>
FileB == <<"b">>
pdf_files == <<FileA, FileB>>
FileNames == { pdf_files[k] : k \in 1..Len(pdf_files) }

\* len(doc): the first PDF is the long one
NumPages(f) == IF f = FileA THEN MaxPages ELSE 1

(***************************************************************************)
(* What the extraction service may return for one question: the stem and   *)
(* the options.  qid stands for the rest of the returned content, which is *)
(* different for every question of every call.  The first and the last     *)
(* record of a list, the two main() treats apart, take every shape; the    *)
(* records between them are whole questions.                               *)
(***************************************************************************)
Shapes ==
    { [stem_text |-> <<"x">>, options |-> "some"],
      [stem_text |-> <<"x", "A", ".">>, options |-> "null"] }

RawRecord(shape, f, r, p, k) ==
    [qid |-> [file |-> f, run |-> r, page |-> p, pos |-> k],
     stem_text |-> shape.stem_text,
     options |-> shape.options]

ShapeLists(n) ==
    { t \in [1..n -> Shapes] : \A k \in 2..(n - 1) : ~is_question_incomplete(t[k]) }

\* the lists json.loads can yield for page p of file f in run r
RawLists(f, r, p) ==
    UNION { { [k \in 1..n |-> RawRecord(sh[k], f, r, p, k)] : sh \in ShapeLists(n) }
            : n \in 0..MaxRecs }

\* call_vlm_api: a parsed list, None on a call error or a JSON decode error,
\* or a JSON value that is no list of objects
Responses(f, r, p) ==
    { [kind |-> "list", recs |-> l] : l \in RawLists(f, r, p) }
        \cup { [kind |-> "none", recs |-> <<>>], [kind |-> "bad", recs |-> <<>>] }

NoResponse == [kind |-> "none", recs |-> <<>>]

\* Python truthiness of page_results
Truthy(res) == res.kind = "list" /\ res.recs # <<>>

VARIABLES
    run,                          \* invocations of main() started so far
    pc,                           \* position of main(): idle between invocations
    exit,                         \* how the last invocation ended
    processed_files,              \* the set load_processed_files returned
    idx,                          \* position in pdf_files
    pdf_filename,
    image_paths,                  \* pages rendered, as page numbers
    render_failed,                \* pdf_to_images caught an exception
    i,                            \* index of the page loop
    all_questions_for_this_pdf,
    incomplete_question_buffer,   \* None or <<fragment>>
    current_prompt,               \* the prompt sent with the last page
    page_results,                 \* what call_vlm_api returned for the last page
    existing_data,                \* append_to_json_file's list
    load_warned,                  \* append_to_json_file found the document unparseable
    storeState,                   \* processed_questions.json: absent, ok, malformed
    storeData,                    \* its records when it parses
    ledger,                       \* processed_files.log, a sequence of lines
    temp,                         \* page images in the temp folder
    frags,                        \* qids put into the buffer while processing this file
    failed,                       \* pages of this file whose extraction returned None
    finalized,                    \* per file, the list its last page loop ended with
    warned,                       \* the file main() has just logged as yielding no question
    embeddings_file,              \* db_embeddings.npy: None or <<number of rows>>
    app_pc,                       \* position of app.py
    db_questions,                 \* app.py's global
    db_embeddings,                \* app.py's global: None or <<number of rows>>
    embedding_model,              \* app.py's global: the model is loaded
    response                      \* what find_similar returned last

vars == <<run, pc, exit, processed_files, idx, pdf_filename, image_paths,
          render_failed, i, all_questions_for_this_pdf,
          incomplete_question_buffer, current_prompt, page_results,
          existing_data, load_warned,
          storeState, storeData, ledger, temp, frags, failed, finalized, warned,
          embeddings_file, app_pc, db_questions, db_embeddings, embedding_model,
          response>>

history == <<finalized, warned>>

\* the files and globals of prepare_embeddings.py and app.py
appvars == <<embeddings_file, app_pc, db_questions, db_embeddings,
             embedding_model, response>>

store == <<storeState, storeData>>

\* the locals of one file's processing
locals == <<pdf_filename, image_paths, render_failed, i,
            all_questions_for_this_pdf, current_prompt, existing_data,
            load_warned, frags, failed>>

\* the locals whose value is still bound when main() goes on to the next file
carried == <<incomplete_question_buffer, page_results>>

NoFile == <<>>

\* find_similar has not been called
NoReply == [status |-> 0, results |-> 0]

\* no page has been sent yet
NoPrompt == [kind |-> "none", context |-> None]

ResetLocals ==
    /\ pdf_filename' = NoFile
    /\ image_paths' = <<>>
    /\ render_failed' = FALSE
    /\ i' = 0
    /\ all_questions_for_this_pdf' = <<>>
    /\ current_prompt' = NoPrompt
    /\ existing_data' = <<>>
    /\ load_warned' = FALSE
    /\ frags' = {}
    /\ failed' = {}

\* the process ends: nothing stays bound
ResetCarried ==
    /\ incomplete_question_buffer' = None
    /\ page_results' = NoResponse

\* line.strip(): file names are written as they are and read back stripped
IsBlank(c) == c \in {" ", "\t", "\n"}

RECURSIVE LStrip(_)
LStrip(s) == IF s # <<>> /\ IsBlank(Head(s)) THEN LStrip(Tail(s)) ELSE s

RECURSIVE RStrip(_)
RStrip(s) ==
    IF s # <<>> /\ IsBlank(s[Len(s)]) THEN RStrip(SubSeq(s, 1, Len(s) - 1)) ELSE s

Strip(s) == LStrip(RStrip(s))

\* load_processed_files()
load_processed_files == { Strip(ledger[k]) : k \in 1..Len(ledger) }

\* a variant that opens the ledger for writing instead of appending
log_processed_fileTruncating(filename) == <<filename>>

\* log_processed_file(filename)
log_processed_file(filename) == Append(ledger, filename)

\* main() has not been called
InitMain ==
    /\ run = 0
    /\ pc = "idle"
    /\ exit = "none"
    /\ processed_files = {}
    /\ idx = 0
    /\ pdf_filename = NoFile
    /\ image_paths = <<>>
    /\ render_failed = FALSE
    /\ i = 0
    /\ all_questions_for_this_pdf = <<>>
    /\ incomplete_question_buffer = None
    /\ current_prompt = NoPrompt
    /\ page_results = NoResponse
    /\ existing_data = <<>>
    /\ load_warned = FALSE
    /\ temp = {}
    /\ frags = {}
    /\ failed = {}
    /\ finalized = [f \in FileNames |-> <<>>]
    /\ warned = NoFile

\* app.py is not running: the module-level values of its globals
InitGlobals ==
    /\ app_pc = "off"
    /\ db_questions = <<>>
    /\ db_embeddings = None
    /\ embedding_model = FALSE
    /\ response = NoReply

Init ==
    /\ InitMain
    /\ storeState \in {"absent", "malformed"}   \* what the result folder holds
    /\ storeData = <<>>
    /\ ledger = <<>>
    /\ embeddings_file = None
    /\ InitGlobals

\* question['searchable_text'] = f"{section_title} {question_number}: {stem_text}"
SearchableText(question) ==
    <<Get(question, "section_title", ""), " ",
      Get(question, "question_number", ""), ": ",
      Get(question, "stem_text", <<>>)>>

\* the metadata main() attaches to a finished question of the page
Finalize(question, filename, page_num) ==
    [source_pdf |-> filename,
     source_page |-> page_num,
     searchable_text |-> SearchableText(question)] @@ question

\* what main() appends for page_results[0] when the buffer is set
MergedCompletion(question, filename, page_num) == question

\* if incomplete_question_buffer and page_results
UsesBuffer(buffer, res) == buffer # None /\ Truthy(res)

\* a variant that leaves the completion among the questions to test
RemainingResultsWhole(buffer, res) == res.recs

\* remaining_results before the completeness test
RemainingResults(buffer, res) ==
    IF UsesBuffer(buffer, res) THEN Tail(res.recs) ELSE res.recs

\* if remaining_results and is_question_incomplete(remaining_results[-1])
LastIsIncomplete(remaining) ==
    remaining # <<>> /\ is_question_incomplete(remaining[Len(remaining)])

\* incomplete_question_buffer after the page
BufferAfter(buffer, res) ==
    IF ~Truthy(res) THEN buffer
    ELSE LET remaining == RemainingResults(buffer, res)
         IN  IF LastIsIncomplete(remaining)
             THEN <<remaining[Len(remaining)]>>
             ELSE IF UsesBuffer(buffer, res) THEN None ELSE buffer

\* a variant that appends the completion after the page's new questions
PageQuestionsCompletionLast(buffer, res, filename, page_num) ==
    IF ~Truthy(res) THEN <<>>
    ELSE LET remaining == RemainingResults(buffer, res)
             kept == IF LastIsIncomplete(remaining)
                     THEN SubSeq(remaining, 1, Len(remaining) - 1)
                     ELSE remaining
             done == [k \in 1..Len(kept) |-> Finalize(kept[k], filename, page_num)]
         IN  IF UsesBuffer(buffer, res)
             THEN done \o <<MergedCompletion(res.recs[1], filename, page_num)>>
             ELSE done

\* a variant that also keeps the fragment the completion replaces
PageQuestionsKeepFragment(buffer, res, filename, page_num) ==
    IF ~Truthy(res) THEN <<>>
    ELSE LET remaining == RemainingResults(buffer, res)
             kept == IF LastIsIncomplete(remaining)
                     THEN SubSeq(remaining, 1, Len(remaining) - 1)
                     ELSE remaining
             done == [k \in 1..Len(kept) |-> Finalize(kept[k], filename, page_num)]
         IN  IF UsesBuffer(buffer, res)
             THEN buffer \o <<MergedCompletion(res.recs[1], filename, page_num)>>
                      \o done
             ELSE done

\* a variant that reads the last question without popping it
PageQuestionsNoPop(buffer, res, filename, page_num) ==
    IF ~Truthy(res) THEN <<>>
    ELSE LET remaining == RemainingResults(buffer, res)
             done == [k \in 1..Len(remaining) |->
                         Finalize(remaining[k], filename, page_num)]
         IN  IF UsesBuffer(buffer, res)
             THEN <<MergedCompletion(res.recs[1], filename, page_num)>> \o done
             ELSE done

\* the questions the page adds to all_questions_for_this_pdf, in order
PageQuestions(buffer, res, filename, page_num) ==
    IF ~Truthy(res) THEN <<>>
    ELSE LET remaining == RemainingResults(buffer, res)
             kept == IF LastIsIncomplete(remaining)
                     THEN SubSeq(remaining, 1, Len(remaining) - 1)
                     ELSE remaining
             done == [k \in 1..Len(kept) |-> Finalize(kept[k], filename, page_num)]
         IN  IF UsesBuffer(buffer, res)
             THEN <<MergedCompletion(res.recs[1], filename, page_num)>> \o done
             ELSE done

\* a variant that sends every page with the base prompt
CurrentPromptBase(buffer) == [kind |-> "base", context |-> None]

\* current_prompt: the base prompt, or the continuation prompt with the buffer
CurrentPrompt(buffer) ==
    IF buffer # None THEN [kind |-> "continuation", context |-> buffer]
    ELSE [kind |-> "base", context |-> None]

\* a variant that starts the page loop with the buffer as the last file left it
InitialBufferCarried(previous) == previous

\* incomplete_question_buffer = None, before the page loop
InitialBuffer(previous) == None

\* image paths of a file's pages 1..k in the temp folder
ImageFiles(f, k) == { <<f, p>> : p \in 1..k }

\* a variant that leaves the page loop when the extraction failed
AfterPageStopOnFailure(res, k, n) ==
    IF res.kind = "none" \/ k = n THEN "cleanup" ELSE "page"

\* the page loop after page k of n: a page never ends the loop early
AfterPage(res, k, n) == IF k = n THEN "cleanup" ELSE "page"

\* a variant that writes and marks every file
HasQuestionsAlways(all) == TRUE

\* if all_questions_for_this_pdf
HasQuestions(all) == all # <<>>

\* a variant that flushes the fragment left in the buffer
DataToAppendWithBuffer(all, buffer) == all \o buffer

\* the list main() hands to append_to_json_file
DataToAppend(all, buffer) == all

\* a variant that gives up the new records when the document does not parse
ExtendedDataRequiresExisting(state, data, new) ==
    IF state = "ok" THEN data \o new ELSE <<>>

\* a variant that puts the new records before the loaded ones
ExtendedDataPrepending(state, data, new) ==
    new \o (IF state = "ok" THEN data ELSE <<>>)

\* existing_data after json.load, or [] when there is no document or it does
\* not parse, and extend(data)
ExtendedData(state, data, new) ==
    (IF state = "ok" THEN data ELSE <<>>) \o new

\* a variant that never finds the file in the ledger
IsProcessedNever(filename, processed) == FALSE

\* if pdf_filename in processed_files
IsProcessed(filename, processed) == filename \in processed

\* main(), up to the file loop
StartRun ==
    /\ pc = "idle"
    /\ run < MaxRuns
    /\ run' = run + 1
    /\ processed_files' = load_processed_files
    /\ idx' = 1
    /\ pc' = "scan"
    /\ ResetCarried
    /\ UNCHANGED <<exit, locals, store, ledger, temp, history>>
    /\ UNCHANGED appvars

\* the file loop meets a file of the ledger: continue
SkipProcessed ==
    /\ pc = "scan"
    /\ idx <= Len(pdf_files)
    /\ IsProcessed(pdf_files[idx], processed_files)
    /\ idx' = idx + 1
    /\ warned' = NoFile
    /\ UNCHANGED <<run, pc, exit, processed_files, locals, carried, store,
                   ledger, temp, finalized>>
    /\ UNCHANGED appvars

\* pdf_to_images: k pages are saved before an exception, or all of them
RenderFile ==
    /\ pc = "scan"
    /\ idx <= Len(pdf_files)
    /\ ~IsProcessed(pdf_files[idx], processed_files)
    /\ \E k \in 0..NumPages(pdf_files[idx]) :
        /\ pdf_filename' = pdf_files[idx]
        /\ image_paths' = [p \in 1..k |-> p]
        /\ render_failed' = (k < NumPages(pdf_files[idx]))
        /\ temp' = temp \cup ImageFiles(pdf_files[idx], k)
        /\ IF k = 0
           THEN /\ pc' = "scan"          \* if not image_paths: continue
                /\ idx' = idx + 1
                /\ UNCHANGED incomplete_question_buffer
           ELSE /\ pc' = "page"
                /\ idx' = idx
                /\ incomplete_question_buffer' =
                      InitialBuffer(incomplete_question_buffer)
    /\ finalized' = [finalized EXCEPT ![pdf_files[idx]] = <<>>]
    /\ warned' = NoFile
    /\ i' = 0
    /\ all_questions_for_this_pdf' = <<>>
    /\ current_prompt' = NoPrompt
    /\ existing_data' = <<>>
    /\ load_warned' = FALSE
    /\ frags' = {}
    /\ failed' = {}
    /\ UNCHANGED <<run, exit, processed_files, page_results, store, ledger>>
    /\ UNCHANGED appvars

\* one iteration of the page loop
ProcessPage ==
    /\ pc = "page"
    /\ i < Len(image_paths)
    /\ \E res \in Responses(pdf_filename, run, i + 1) :
        /\ page_results' = res
        /\ IF res.kind = "bad"
           THEN \* the uncaught exception ends the process
                /\ pc' = "idle"
                /\ exit' = "exception"
                /\ idx' = 0
                /\ pdf_filename' = NoFile
                /\ image_paths' = <<>>
                /\ render_failed' = FALSE
                /\ i' = 0
                /\ all_questions_for_this_pdf' = <<>>
                /\ incomplete_question_buffer' = None
                /\ current_prompt' = NoPrompt
                /\ existing_data' = <<>>
                /\ load_warned' = FALSE
                /\ frags' = {}
                /\ failed' = {}
           ELSE /\ current_prompt' = CurrentPrompt(incomplete_question_buffer)
                /\ all_questions_for_this_pdf' =
                      all_questions_for_this_pdf
                          \o PageQuestions(incomplete_question_buffer, res,
                                           pdf_filename, i + 1)
                /\ incomplete_question_buffer' =
                      BufferAfter(incomplete_question_buffer, res)
                /\ frags' = frags \cup
                      { BufferAfter(incomplete_question_buffer, res)[k].qid :
                          k \in 1..Len(BufferAfter(incomplete_question_buffer, res)) }
                /\ failed' = IF res.kind = "none" THEN failed \cup {i + 1} ELSE failed
                /\ i' = i + 1
                /\ pc' = AfterPage(res, i + 1, Len(image_paths))
                /\ UNCHANGED <<exit, idx, pdf_filename, image_paths, render_failed,
                               existing_data, load_warned>>
    /\ UNCHANGED <<run, processed_files, store, ledger, temp, history>>
    /\ UNCHANGED appvars

\* os.remove of the file's images, then the test of all_questions_for_this_pdf
Cleanup ==
    /\ pc = "cleanup"
    /\ temp' = temp \ ImageFiles(pdf_filename, Len(image_paths))
    /\ finalized' = [finalized EXCEPT ![pdf_filename] = all_questions_for_this_pdf]
    /\ IF HasQuestions(all_questions_for_this_pdf)
       THEN /\ pc' = "append"
            /\ UNCHANGED <<idx, locals, warned>>
       ELSE /\ pc' = "scan"
            /\ idx' = idx + 1
            /\ warned' = pdf_filename
            /\ ResetLocals
    /\ UNCHANGED <<run, exit, processed_files, carried, store, ledger>>
    /\ UNCHANGED appvars

\* append_to_json_file: load the document, extend, open it for writing
AppendOpen ==
    /\ pc = "append"
    /\ existing_data' =
          ExtendedData(storeState, storeData,
                       DataToAppend(all_questions_for_this_pdf,
                                    incomplete_question_buffer))
    /\ load_warned' = (storeState = "malformed")
    /\ storeState' = "malformed"      \* the truncated file does not parse
    /\ storeData' = <<>>
    /\ pc' = "dump"
    /\ UNCHANGED <<run, exit, processed_files, idx, pdf_filename, image_paths,
                   render_failed, i, all_questions_for_this_pdf,
                   incomplete_question_buffer, current_prompt, page_results,
                   ledger, temp, frags, failed, history>>
    /\ UNCHANGED appvars

\* append_to_json_file: json.dump
AppendDump ==
    /\ pc = "dump"
    /\ storeState' = "ok"
    /\ storeData' = existing_data
    /\ pc' = "log"
    /\ UNCHANGED <<run, exit, processed_files, idx, locals, carried, ledger, temp,
                   history>>
    /\ UNCHANGED appvars

\* log_processed_file(pdf_filename), and on to the next file
LogProcessed ==
    /\ pc = "log"
    /\ ledger' = log_processed_file(pdf_filename)
    /\ pc' = "scan"
    /\ idx' = idx + 1
    /\ ResetLocals
    /\ UNCHANGED <<run, exit, processed_files, carried, store, temp, history>>
    /\ UNCHANGED appvars

\* the file loop is over
Finish ==
    /\ pc = "scan"
    /\ idx > Len(pdf_files)
    /\ pc' = "idle"
    /\ exit' = "completed"
    /\ idx' = 0
    /\ warned' = NoFile
    /\ ResetCarried
    /\ UNCHANGED <<run, processed_files, locals, store, ledger, temp, finalized>>
    /\ UNCHANGED appvars

\* the process is killed: files stay as they are, memory is lost
Interrupt ==
    /\ pc # "idle"
    /\ pc' = "idle"
    /\ exit' = "killed"
    /\ idx' = 0
    /\ ResetLocals
    /\ ResetCarried
    /\ warned' = NoFile
    /\ UNCHANGED <<run, processed_files, store, ledger, temp, finalized>>
    /\ UNCHANGED appvars

Next ==
    \/ StartRun
    \/ SkipProcessed
    \/ RenderFile
    \/ ProcessPage
    \/ Cleanup
    \/ AppendOpen
    \/ AppendDump
    \/ LogProcessed
    \/ Finish

\* main() run to its end, or to an exception of its own
Spec == Init /\ [][Next]_vars

NextInterrupted ==
    \/ Next
    \/ Interrupt

\* the same, with the process killed at any point
SpecInterrupted == Init /\ [][NextInterrupted]_vars

(***************************************************************************)
(* The query-serving application of app.py and the script of               *)
(* prepare_embeddings.py, over a result folder main() has left: the Store  *)
(* is absent, unparseable, or holds the records of a processed file, and   *)
(* the vector file is absent or holds some number of rows.                 *)
(***************************************************************************)
TopN == 3            \* np.argsort(similarities)[-3:]

\* the Store after main() wrote n questions of the first file
StoredRecords(n) ==
    [k \in 1..n |->
        Finalize(RawRecord([stem_text |-> <<"x">>, options |-> "some"],
                           FileA, 1, 1, k), FileA, 1)]

\* main() does not run; its files and variables stay as they are
main == <<run, pc, exit, processed_files, idx, locals, carried, store, ledger,
          temp, history>>

InitApp ==
    /\ InitMain
    /\ \/ /\ storeState \in {"absent", "malformed"}
          /\ storeData = <<>>
          /\ ledger = <<>>
       \/ /\ storeState = "ok"
          /\ storeData \in { StoredRecords(n) : n \in 1..MaxStored }
          /\ ledger = <<FileA>>
    /\ embeddings_file \in { None } \cup { <<n>> : n \in 1..MaxStored }
    /\ InitGlobals

\* prepare_embeddings.py: main()
PrepareEmbeddings ==
    /\ storeState = "ok"             \* absent: return; unparseable: json.load raises
    /\ storeData # <<>>              \* if not searchable_texts: return
    /\ embeddings_file' = <<Len(storeData)>>
    /\ UNCHANGED <<main, app_pc, db_questions, db_embeddings, embedding_model,
                   response>>

\* python app.py: the call of load_database_and_create_embeddings
AppStart ==
    /\ app_pc = "off"
    /\ app_pc' = "load_store"
    /\ UNCHANGED <<main, embeddings_file, db_questions, db_embeddings,
                   embedding_model, response>>

\* load_database_and_create_embeddings: the Store
LoadStore ==
    /\ app_pc = "load_store"
    /\ IF storeState = "absent"
       THEN /\ app_pc' = "returned"              \* logging.error and return
            /\ UNCHANGED db_questions
       ELSE IF storeState = "malformed"
       THEN /\ app_pc' = "exited"                \* json.load raises
            /\ UNCHANGED db_questions
       ELSE /\ app_pc' = "load_embeddings"
            /\ db_questions' = storeData
    /\ UNCHANGED <<main, embeddings_file, db_embeddings, embedding_model, response>>

\* load_database_and_create_embeddings: the vector file
LoadEmbeddings ==
    /\ app_pc = "load_embeddings"
    /\ IF embeddings_file = None
       THEN /\ app_pc' = "returned"              \* logging.error and return
            /\ UNCHANGED db_embeddings
       ELSE /\ app_pc' = "validate"
            /\ db_embeddings' = embeddings_file
    /\ UNCHANGED <<main, embeddings_file, db_questions, embedding_model, response>>

\* load_database_and_create_embeddings: the count of questions and of vectors
ValidateCounts ==
    /\ app_pc = "validate"
    /\ app_pc' = IF Len(db_questions) # db_embeddings[1]
                 THEN "exited"                   \* exit()
                 ELSE "load_model"
    /\ UNCHANGED <<main, embeddings_file, db_questions, db_embeddings,
                   embedding_model, response>>

\* load_database_and_create_embeddings: the model for the queries
LoadModel ==
    /\ app_pc = "load_model"
    /\ embedding_model' = TRUE
    /\ app_pc' = "returned"
    /\ UNCHANGED <<main, embeddings_file, db_questions, db_embeddings, response>>

\* if db_questions: app.run(...)
AppRun ==
    /\ app_pc = "returned"
    /\ app_pc' = IF db_questions # <<>> THEN "serving" ELSE "exited"
    /\ UNCHANGED <<main, embeddings_file, db_questions, db_embeddings,
                   embedding_model, response>>

\* find_similar: the question is read off the image or not; any exception
\* gives status 500
FindSimilar ==
    /\ app_pc = "serving"
    /\ \E extracted \in BOOLEAN :
        response' =
            IF extracted /\ embedding_model /\ db_embeddings # None
            THEN [status |-> 200, results |-> Min(TopN, Len(db_questions))]
            ELSE [status |-> 500, results |-> 0]
    /\ UNCHANGED <<main, embeddings_file, app_pc, db_questions, db_embeddings,
                   embedding_model>>

NextApp ==
    \/ PrepareEmbeddings
    \/ AppStart
    \/ LoadStore
    \/ LoadEmbeddings
    \/ ValidateCounts
    \/ LoadModel
    \/ AppRun
    \/ FindSimilar

\* one start of app.py over the result folder
SpecApp == InitApp /\ [][NextApp]_vars

(***************************************************************************)
(* Vocabulary of the properties.                                           *)
(***************************************************************************)
Range(seq) == { seq[k] : k \in 1..Len(seq) }

\* the record carries provenance and the search text
HasProvenance(q) ==
    /\ {"source_pdf", "source_page", "searchable_text"} \subseteq DOMAIN q
    /\ q.source_pdf \in FileNames
    /\ q.source_page >= 1

\* the record carries none of the three fields
IsRaw(q) == DOMAIN q \cap {"source_pdf", "source_page", "searchable_text"} = {}

\* sub occurs in seq as a block of neighbours
IsBlockOf(sub, seq) ==
    \E k \in 0..(Len(seq) - Len(sub)) : SubSeq(seq, k + 1, k + Len(sub)) = sub

\* seq ends with sub
IsSuffixOf(sub, seq) ==
    /\ Len(sub) <= Len(seq)
    /\ SubSeq(seq, Len(seq) - Len(sub) + 1, Len(seq)) = sub

\* the file names the ledger file holds
LedgerNames == Range(ledger)

\* main() is between two files, or not running
BetweenFiles == pc \in {"idle", "scan"}

\* main() is inside the processing of pdf_filename
InFile == pc \in {"page", "cleanup", "append", "dump", "log"}

\* a step of the page loop that was not ended by an exception
PageStep == pc = "page" /\ i' = i + 1

(***************************************************************************)
(* C1: every record of the Store carries source file, source page >= 1 and *)
(* searchable_text, the completion of a pending fragment included, and the *)
(* pending fragment carries none of them.  The code appends                *)
(* page_results[0] as it came.                                             *)
(***************************************************************************)
C1_StoreRecordsCarryProvenance ==
    /\ \A q \in Range(storeData) : HasProvenance(q)
    /\ \A q \in Range(incomplete_question_buffer) : IsRaw(q)

(***************************************************************************)
(* C2: between file steps, also after a kill and after a malformed Store   *)
(* was overwritten, a file is in the ledger if and only if all the         *)
(* questions its page loop ended with are in the Store.                    *)
(***************************************************************************)
C2_LedgerIffStored ==
    BetweenFiles =>
        \A f \in FileNames :
            f \in LedgerNames <=>
                /\ finalized[f] # <<>>
                /\ storeState = "ok"
                /\ IsBlockOf(finalized[f], storeData)

(***************************************************************************)
(* C3, as stated: a run that follows a completed run leaves the Store as   *)
(* it found it, whatever rendering and extraction yield.                   *)
(***************************************************************************)
C3_RerunLeavesStore ==
    [][(run >= 2 /\ exit = "completed") => UNCHANGED store]_vars

(***************************************************************************)
(* C3, amended: a file whose name load_processed_files returned is neither *)
(* rendered nor extracted, and a run that finds every PDF of the directory *)
(* in the ledger changes neither the Store, the ledger nor the temp        *)
(* folder.                                                                 *)
(***************************************************************************)
C3_LedgerFilesSkipped ==
    /\ [](InFile => pdf_filename \notin processed_files)
    /\ [][(pc # "idle" /\ FileNames \subseteq processed_files)
            => UNCHANGED <<store, ledger, temp>>]_vars

\* a second run has skipped both files over a Store that holds records
C3_Witness ==
    /\ run = 2
    /\ pc = "idle"
    /\ exit = "completed"
    /\ FileNames \subseteq processed_files
    /\ Len(storeData) >= 2

(***************************************************************************)
(* C4: the records one processing of a file contributes are in (page,      *)
(* position on the page) order, in the accumulated list and in the Store,  *)
(* and a record's source_page is the page that returned it.                *)
(***************************************************************************)
SameProcessing(q1, q2) ==
    q1.qid.file = q2.qid.file /\ q1.qid.run = q2.qid.run

ReturnedBefore(q1, q2) ==
    \/ q1.qid.page < q2.qid.page
    \/ q1.qid.page = q2.qid.page /\ q1.qid.pos < q2.qid.pos

InPageOrder(seq) ==
    \A a, b \in 1..Len(seq) :
        (a < b /\ SameProcessing(seq[a], seq[b])) => ReturnedBefore(seq[a], seq[b])

PageAttached(q) ==
    "source_page" \in DOMAIN q =>
        q.source_page = q.qid.page /\ q.source_pdf = q.qid.file

C4_OrderPreserved ==
    /\ InPageOrder(all_questions_for_this_pdf)
    /\ InPageOrder(storeData)
    /\ \A q \in Range(all_questions_for_this_pdf) \cup Range(storeData) :
           PageAttached(q)

\* a file's list written to the Store: two pages, a completion followed by
\* a new question on the second
C4_Witness ==
    /\ pc = "log"
    /\ IsSuffixOf(all_questions_for_this_pdf, storeData)
    /\ \E a, b, c \in 1..Len(all_questions_for_this_pdf) :
        /\ a < b /\ b < c
        /\ all_questions_for_this_pdf[a].qid.page = 1
        /\ all_questions_for_this_pdf[b].qid.page = 2
        /\ IsRaw(all_questions_for_this_pdf[b])
        /\ all_questions_for_this_pdf[c].qid.page = 2

(***************************************************************************)
(* C5: a page processed with a fragment in the buffer and a non-empty      *)
(* result adds the first returned record as it is, once, and no fragment   *)
(* is ever in the accumulated list or in the Store.                        *)
(***************************************************************************)
C5_MergeYieldsOneRecord ==
    /\ [](\A q \in Range(all_questions_for_this_pdf) \cup Range(existing_data)
                    \cup Range(storeData) : q.qid \notin frags)
    /\ [][(PageStep /\ incomplete_question_buffer # None /\ Truthy(page_results'))
            => LET old == all_questions_for_this_pdf
                   new == all_questions_for_this_pdf'
                   fragment == incomplete_question_buffer[1]
                   first == page_results'.recs[1]
               IN  /\ Len(new) > Len(old)
                   /\ SubSeq(new, 1, Len(old)) = old
                   /\ new[Len(old) + 1] = first
                   /\ Cardinality({ k \in 1..Len(new) :
                          new[k].qid \in {fragment.qid, first.qid} }) = 1]_vars

\* the two-page example: Q1 and a cut Q2, then the whole Q2 and Q3
C5_Witness ==
    /\ FileA \in LedgerNames
    /\ storeState = "ok"
    /\ Len(storeData) = 3
    /\ storeData[1].qid = [file |-> FileA, run |-> 1, page |-> 1, pos |-> 1]
    /\ storeData[2].qid = [file |-> FileA, run |-> 1, page |-> 2, pos |-> 1]
    /\ storeData[3].qid = [file |-> FileA, run |-> 1, page |-> 2, pos |-> 2]
    /\ IsRaw(storeData[2])

(***************************************************************************)
(* C6: when the Store has been written for a file whose buffer still holds *)
(* a fragment after the last page, the Store ends with the file's          *)
(* accumulated records and does not hold the fragment.                     *)
(***************************************************************************)
C6_EndOfFileFragmentDropped ==
    (pc = "log" /\ incomplete_question_buffer # None) =>
        /\ storeState = "ok"
        /\ IsSuffixOf(all_questions_for_this_pdf, storeData)
        /\ \A q \in Range(storeData) : q.qid # incomplete_question_buffer[1].qid

C6_Witness ==
    /\ pc = "log"
    /\ i = Len(image_paths)
    /\ incomplete_question_buffer # None
    /\ incomplete_question_buffer[1].qid.page = i
    /\ Len(all_questions_for_this_pdf) >= 2

(***************************************************************************)
(* C7: a page that yields nothing while the buffer holds a fragment leaves *)
(* the buffer empty.  The code leaves the buffer as it was.                *)
(***************************************************************************)
C7_EmptyPageDropsFragment ==
    [][(PageStep /\ incomplete_question_buffer # None /\ ~Truthy(page_results'))
         => incomplete_question_buffer' = None]_vars

(***************************************************************************)
(* C8: a file whose rendering failed, at the opening or at any page, has   *)
(* no record of this processing in the Store and is not about to be        *)
(* logged.  The code processes the pages rendered before the failure.      *)
(***************************************************************************)
C8_RenderFailureSkipsFile ==
    render_failed =>
        /\ pc # "log"
        /\ \A q \in Range(storeData) :
               ~(q.qid.file = pdf_filename /\ q.qid.run = run)

C10_AppendAndMarkIffRecords ==
    /\ [][pc = "cleanup"
            => /\ UNCHANGED <<store, ledger>>
               /\ IF all_questions_for_this_pdf # <<>>
                  THEN pc' = "append"
                  ELSE /\ pc' = "scan"
                       /\ idx' = idx + 1
                       /\ pdf_filename \notin load_processed_files']_vars
    /\ [][pc = "append" => pc' = "dump"]_vars
    /\ [][pc = "dump"
            => /\ pc' = "log"
               /\ storeState' = "ok"
               /\ IsSuffixOf(all_questions_for_this_pdf, storeData')]_vars
    /\ [][pc = "log" => ledger' = Append(ledger, pdf_filename)]_vars
    /\ [][store' # store
            => pc \in {"append", "dump"} /\ all_questions_for_this_pdf # <<>>]_vars
    /\ [][ledger' # ledger
            => pc = "log" /\ all_questions_for_this_pdf # <<>>]_vars
    /\ [][(pc = "scan" /\ idx <= Len(pdf_files)
              /\ pdf_files[idx] \notin processed_files)
            => pdf_filename' = pdf_files[idx]]_vars

\* the first file yielded no record again in the second run
C10_Witness ==
    /\ run = 2
    /\ pc = "scan"
    /\ warned = FileA
    /\ FileA \notin load_processed_files
    /\ FileB \in LedgerNames

(***************************************************************************)
(* C11: a name enters the ledger only when the file's whole accumulated    *)
(* list is already in the Store, every name of the ledger has its list in  *)
(* the Store (in the document being rewritten, while a later file is       *)
(* written), and the ledger only grows at its end.                         *)
(***************************************************************************)
IsPrefixOf(sub, seq) ==
    Len(sub) <= Len(seq) /\ SubSeq(seq, 1, Len(sub)) = sub

\* the document: the list being dumped while append_to_json_file rewrites it
StoreDocument == IF pc = "dump" THEN existing_data ELSE storeData

C11_LedgerAfterStore ==
    /\ [](\A f \in LedgerNames :
            /\ finalized[f] # <<>>
            /\ IsBlockOf(finalized[f], StoreDocument))
    /\ [][ledger' # ledger
            => /\ pc = "log"
               /\ storeState = "ok"
               /\ finalized[pdf_filename] = all_questions_for_this_pdf
               /\ IsSuffixOf(all_questions_for_this_pdf, storeData)
               /\ ledger' = Append(ledger, pdf_filename)]_vars
    /\ [][IsPrefixOf(ledger, ledger')]_vars

\* both files are in the ledger and the Store holds the lists of both
C11_Witness ==
    /\ ledger = <<FileA, FileB>>
    /\ storeState = "ok"
    /\ pc = "scan"
    /\ \E q \in Range(storeData) : q.qid.file = FileA
    /\ \E q \in Range(storeData) : q.qid.file = FileB

(***************************************************************************)
(* C12: the page images of a file are in the temp folder only while the    *)
(* file is rendered and its pages are processed: once the page loop is     *)
(* left, on any path, the folder holds none of them.  The code removes the *)
(* images after the loop, outside any finally clause, so a page loop left  *)
(* by an exception keeps them.                                             *)
(***************************************************************************)
C12_TempImagesDeleted ==
    pc \notin {"page", "cleanup"} => temp = {}

(***************************************************************************)
(* C13: an invocation of main() that has ended has reached the end of the  *)
(* file loop.  The code ends with an uncaught exception when a page's      *)
(* response parses to a value that is no list of objects.                  *)
(***************************************************************************)
C13_RunEndsCompleted ==
    (pc = "idle" /\ run >= 1) => exit = "completed"

(***************************************************************************)
(* C14: when append_to_json_file finds a document that does not parse, it  *)
(* goes on to write: the list it dumps and the Store it leaves are exactly *)
(* the records handed to it, in order, and the file's name is then added   *)
(* to the ledger.                                                          *)
(***************************************************************************)
C14_MalformedStoreOverwritten ==
    /\ [][(pc = "append" /\ storeState = "malformed")
            => /\ pc' = "dump"
               /\ load_warned'
               /\ existing_data' = all_questions_for_this_pdf
               /\ UNCHANGED exit]_vars
    /\ []((pc = "log" /\ load_warned)
            => storeState = "ok" /\ storeData = all_questions_for_this_pdf)
    /\ [][(pc = "log" /\ load_warned)
            => /\ ledger' = Append(ledger, pdf_filename)
               /\ UNCHANGED store]_vars

\* the unparseable document has been replaced by the two records of a file
C14_Witness ==
    /\ pc = "log"
    /\ load_warned
    /\ storeState = "ok"
    /\ Len(storeData) >= 2
    /\ storeData = all_questions_for_this_pdf

(***************************************************************************)
(* C15: the Store document only grows at its end; appending to a document  *)
(* that parses dumps the old records followed by the new ones; nothing     *)
(* but append_to_json_file and log_processed_file changes the Store or the *)
(* ledger; and no record of the file being processed is in the Store       *)
(* before the one write that puts all of them there.                       *)
(***************************************************************************)
C15_StoreAppendOnly ==
    /\ [][IsPrefixOf(StoreDocument, StoreDocument')]_vars
    /\ [][(pc = "append" /\ storeState = "ok")
            => existing_data' = storeData \o all_questions_for_this_pdf]_vars
    /\ [][pc = "dump" => storeState' = "ok" /\ storeData' = existing_data]_vars
    /\ [][pc \notin {"append", "dump", "log"} => UNCHANGED <<store, ledger>>]_vars
    /\ [][pc = "log" => UNCHANGED store]_vars
    /\ []((InFile /\ pc \notin {"dump", "log"})
            => \A q \in Range(storeData) :
                   ~(q.qid.file = pdf_filename /\ q.qid.run = run))
    /\ [](pc = "log" => IsSuffixOf(all_questions_for_this_pdf, storeData))

\* the second file's records have been written after those of the first
C15_Witness ==
    /\ pc = "log"
    /\ pdf_filename = FileB
    /\ finalized[FileA] # <<>>
    /\ all_questions_for_this_pdf # <<>>
    /\ storeData = finalized[FileA] \o all_questions_for_this_pdf

(***************************************************************************)
(* C16: on a page with a non-empty result, every returned record but the   *)
(* last is added to the accumulated list on that page, whatever            *)
(* is_question_incomplete says of it; the buffer after the page is empty   *)
(* or holds the last returned record, which then is incomplete and is not  *)
(* the completion; and with a fragment in the buffer the first returned    *)
(* record is added as it is and is not buffered, also when it is the only  *)
(* one.                                                                    *)
(***************************************************************************)
C16_OnlyLastCandidateTested ==
    [][(PageStep /\ Truthy(page_results'))
        => LET recs == page_results'.recs
               n == Len(recs)
               used == incomplete_question_buffer # None
               old == all_questions_for_this_pdf
               new == all_questions_for_this_pdf'
               added == SubSeq(new, Len(old) + 1, Len(new))
               buffer == incomplete_question_buffer'
           IN  /\ SubSeq(new, 1, Len(old)) = old
               /\ \A k \in 1..(n - 1) :
                      /\ Len(added) >= k
                      /\ added[k].qid = recs[k].qid
                      /\ (k > 1 \/ ~used) => HasProvenance(added[k])
               /\ used => /\ added # <<>>
                          /\ added[1] = recs[1]
                          /\ buffer # <<recs[1]>>
               /\ buffer # None
                      => /\ buffer = <<recs[n]>>
                         /\ is_question_incomplete(recs[n])
                         /\ used => n > 1
               /\ (~used \/ n > 1)
                      => (is_question_incomplete(recs[n]) <=> buffer = <<recs[n]>>)]_vars

\* page 2 returned one record that looks cut, with the fragment of page 1
\* in the buffer: it was added as the completion and the buffer is empty
C16_Witness ==
    /\ pc \in {"page", "cleanup"}
    /\ i = 2
    /\ frags # {}
    /\ Len(page_results.recs) = 1
    /\ is_question_incomplete(page_results.recs[1])
    /\ incomplete_question_buffer = None
    /\ all_questions_for_this_pdf # <<>>
    /\ all_questions_for_this_pdf[Len(all_questions_for_this_pdf)]
           = page_results.recs[1]

(***************************************************************************)
(* C17: a page is sent with the continuation prompt holding the buffered   *)
(* fragment when the buffer is set as the page's step begins, and with the *)
(* base prompt when it is not; the first page of a file is sent with the   *)
(* base prompt.                                                            *)
(***************************************************************************)
C17_PromptSelection ==
    /\ [][PageStep
            => /\ incomplete_question_buffer # None
                    => current_prompt' = [kind |-> "continuation",
                                          context |-> incomplete_question_buffer]
               /\ incomplete_question_buffer = None
                    => current_prompt' = [kind |-> "base", context |-> None]]_vars
    /\ []((InFile /\ i = 1) => current_prompt.kind = "base")

\* page 2 was sent with the fragment cut at the end of page 1
C17_Witness ==
    /\ InFile
    /\ i = 2
    /\ current_prompt.kind = "continuation"
    /\ current_prompt.context # None
    /\ current_prompt.context[1].qid.page = 1

(***************************************************************************)
(* C19: the page loop of every file starts with an empty buffer, whatever  *)
(* the file before left in it; the buffer and the context of the prompt    *)
(* hold only records returned for the file being processed, in this run,   *)
(* and so does the buffer a page's first record is taken to complete.      *)
(***************************************************************************)
OfThisFile(q) == q.qid.file = pdf_filename /\ q.qid.run = run

C19_FragmentStaysInFile ==
    /\ [][(pc = "scan" /\ pc' = "page") => incomplete_question_buffer' = None]_vars
    /\ []((pc = "page" /\ i = 0) => incomplete_question_buffer = None)
    /\ [](InFile => \A q \in Range(incomplete_question_buffer)
                            \cup Range(current_prompt.context) : OfThisFile(q))
    /\ [][(PageStep /\ UsesBuffer(incomplete_question_buffer, page_results'))
            => /\ OfThisFile(incomplete_question_buffer[1])
               /\ incomplete_question_buffer[1].qid.page <= i]_vars

\* the last page of the first file ended with its last record in the
\* buffer, and the page loop of the second file starts without it
C19_Witness ==
    /\ pc = "page"
    /\ i = 0
    /\ pdf_filename = FileB
    /\ incomplete_question_buffer = None
    /\ page_results.recs # <<>>
    /\ LET last == page_results.recs[Len(page_results.recs)]
       IN  /\ last.qid.file = FileA
           /\ last.qid.run = run
           /\ is_question_incomplete(last)
           /\ \A q \in Range(finalized[FileA]) \cup Range(storeData) :
                  q.qid # last.qid

(***************************************************************************)
(* C20: a page whose result is a non-empty list of k records adds to the   *)
(* accumulated list, or leaves in the buffer, each of the k records once:  *)
(* the records added on the page plus the one buffered, if any, are k, and *)
(* they are the k returned ones.                                           *)
(***************************************************************************)
C20_PageConservation ==
    [][(PageStep /\ Truthy(page_results'))
        => LET recs == page_results'.recs
               old == all_questions_for_this_pdf
               new == all_questions_for_this_pdf'
               added == SubSeq(new, Len(old) + 1, Len(new))
               pending == incomplete_question_buffer'
               kept == added \o pending
           IN  /\ SubSeq(new, 1, Len(old)) = old
               /\ Len(pending) <= 1
               /\ Len(added) + Len(pending) = Len(recs)
               /\ \A k \in 1..Len(recs) : kept[k].qid = recs[k].qid
               /\ \A k \in 1..Len(pending) : pending[k] = recs[Len(recs)]]_vars

\* a page returned two records: the first was added, the second buffered
C20_Witness ==
    /\ pc \in {"page", "cleanup"}
    /\ i >= 1
    /\ Len(page_results.recs) = 2
    /\ page_results.recs[1].qid.file = pdf_filename
    /\ page_results.recs[1].qid.page = i
    /\ incomplete_question_buffer = <<page_results.recs[2]>>
    /\ all_questions_for_this_pdf # <<>>
    /\ all_questions_for_this_pdf[Len(all_questions_for_this_pdf)].qid
           = page_results.recs[1].qid

(***************************************************************************)
(* C18: app.py serves requests only with the Store loaded, the vector file *)
(* loaded and as many rows as questions.  The code returns from the loader *)
(* when the vector file is missing and then starts the server, since       *)
(* db_questions is not empty.                                              *)
(***************************************************************************)
C18_ServesOnlyWhenLoaded ==
    app_pc = "serving" =>
        /\ db_questions # <<>>
        /\ db_embeddings # None
        /\ db_embeddings[1] = Len(db_questions)
====
